---- MODULE Spec2Model ----
(***************************************************************************)
(* Wildfire analysis client: the zustand store (lib/store), the API client *)
(* (lib/api), the analysis panel and the map view.                         *)
(*                                                                         *)
(* JavaScript null/undefined is None (the empty sequence) and a present    *)
(* value v is Some(v).  A string is a sequence of text pieces, so that the *)
(* empty string is << >> and substring/concatenation are sequence          *)
(* operations.                                                             *)
(***************************************************************************)
EXTENDS Integers, Sequences, FiniteSets, TLC

VARIABLES
  selectedLocation,      \* store: Location | null
  analysisResults,       \* store: AnalysisResults | null
  burnSeverityPolygons,  \* store: any | null
  isLoading,             \* store: boolean
  error,                 \* store: string | null
  visibleLayers,         \* store: { burnSeverity: boolean }
  inflight,              \* runAnalysis calls suspended at `await analyzeWildfire(params)`
  fetchCount,            \* number of fetch("/api/analyze-wildfire") calls issued so far
  effectPending,         \* the panel's [selectedLocation] effect is scheduled and has not run
  lastOp,                \* history: the last operation, its arguments and outcome
  resultReq,             \* history: the request (or mock substitution) that wrote analysisResults
  featureIdx,            \* map view: position of forEach(processFeature)
  points,                \* map view: the points array of extractPointsFromPolygons
  request,               \* endpoint: the body of the POST request received
  host,                  \* endpoint: the server's scripts directory and what the script does
  reply,                 \* endpoint: the NextResponse returned by POST, none before
  command                \* endpoint: the command line POST executed, none if it ran none

storeVars == <<selectedLocation, analysisResults, burnSeverityPolygons, isLoading, error, visibleLayers>>
sessionVars == <<inflight, fetchCount, effectPending, lastOp, resultReq>>
mapVars == <<featureIdx, points>>
serverVars == <<request, host, reply, command>>
vars == <<storeVars, sessionVars, mapVars, serverVars>>

None == << >>
Some(v) == <<v>>

-----------------------------------------------------------------------------
(* Bounds of the model *)

\* runAnalysis calls issued in one behaviour
MaxRequests == 2

\* vertices of the longest ring given to the map view
MaxRingLen == 32

\* features of the longest mixed feature collection given to the map view
MaxFeatures == 2

\* severities run over -MaxSeverity..MaxSeverity (and one far value)
MaxSeverity == 7

-----------------------------------------------------------------------------
(* Values *)

Location(lat, lng) == [latitude |-> lat, longitude |-> lng]

Origin == Location(0, 0)

SanFrancisco == Location(37, -122)

Locations == {Origin, SanFrancisco}

\* the panel's date inputs; they do not vary in the model
PreFireDate == <<"2023-06-01">>

PostFireDate == <<"2023-08-01">>

AnalysisParams(loc) ==
  [latitude |-> loc.latitude, longitude |-> loc.longitude,
   preFireDate |-> PreFireDate, postFireDate |-> PostFireDate]

ParamsLocation(params) == Location(params.latitude, params.longitude)

\* [longitude, latitude] vertices of ring `tag`: vertex i is distinguishable from every other
MkRing(tag, n) == [i \in 1..n |-> <<tag * 100 + (i - 1), -(i - 1)>>]

Props(sev, area) == [severity |-> sev, area |-> area]

Feature(gtype, coords, props) ==
  [type |-> "Feature", geometry |-> Some([type |-> gtype, coordinates |-> coords]), properties |-> props]

FeatureCollection(fs) == [type |-> "FeatureCollection", features |-> fs]

\* a geometry the remote service returns with a result
ServicePolygons ==
  FeatureCollection(<<Feature("Polygon", <<MkRing(1, 4)>>, Props(Some(3), Some(2)))>>)

\* AnalysisResults payloads; only the fields the store reads are kept apart
ResultWithPolygons == [dataSource |-> "Sentinel-2", totalBurnedArea |-> 42, burnSeverityPolygons |-> Some(ServicePolygons)]

ResultNoPolygons == [dataSource |-> "Sentinel-2", totalBurnedArea |-> 7, burnSeverityPolygons |-> None]

\* lib/mock-data: the fixture carries no burnSeverityPolygons
mockAnalysisResults == [dataSource |-> "Sentinel-2", totalBurnedArea |-> 43, burnSeverityPolygons |-> None]

\* the fixture with a geometry attached
MockWithPolygons == [dataSource |-> "Mock", totalBurnedArea |-> 43, burnSeverityPolygons |-> Some(ServicePolygons)]

Results == {ResultWithPolygons, ResultNoPolygons}

MockResults == {mockAnalysisResults, MockWithPolygons}

\* the JSON value null
JsNull == [jsnull |-> TRUE]

-----------------------------------------------------------------------------
(* The remote boundary: what fetch() can settle with *)

\* characters kept of a raw error body
SubstringLimit == 200

LongText == [i \in 1..(SubstringLimit + 3) |-> "x"]

ShortText == <<"B", "a", "d", " ", "G", "a", "t", "e", "w", "a", "y">>

\* a thrown JavaScript value: an Error instance with its message, or some other value
ErrorOf(msg) == [isError |-> TRUE, message |-> msg]

NonError == [isError |-> FALSE, message |-> <<"boom">>]

TimeoutMsg == <<"timeout">>

SyntaxErrorMsg == <<"Unexpected token < in JSON at position 0">>

BodyUsedMsg == <<"body stream already read">>

StreamErrorMsg == <<"network error">>

NullAccessMsg == <<"Cannot read properties of null (reading 'burnSeverityPolygons')">>

UnknownErrorMsg == <<"An unknown error occurred">>

MissingParamsMsg == <<"Missing required parameters">>

\* body: "json" (a JSON document `json` with raw text `text`), "text" (`text`, not JSON),
\* "broken" (the stream errors before the body is read)
Response(ok, status, statusText, kind, json, text) ==
  [ok |-> ok, status |-> status, statusText |-> statusText, bodyUsed |-> FALSE,
   body |-> [kind |-> kind, json |-> json, text |-> text]]

ErrorBody(e) == [error |-> e]

\* the raw text of a JSON body (one piece; shorter than SubstringLimit)
RawJson == <<"{", "...", "}">>

OkResponses ==
  {Response(TRUE, <<"200">>, <<"OK">>, "json", r, Some(RawJson)) : r \in Results \cup {JsNull}}
    \cup {Response(TRUE, <<"200">>, <<"OK">>, "text", JsNull, Some(ShortText))}

ErrorResponses ==
  {Response(FALSE, <<"400">>, <<"Bad Request">>, "json", ErrorBody(Some(MissingParamsMsg)), Some(RawJson)),
   Response(FALSE, <<"500">>, <<"Internal Server Error">>, "json", ErrorBody(None), Some(RawJson)),
   Response(FALSE, <<"500">>, <<"Internal Server Error">>, "json", ErrorBody(Some(<< >>)), Some(RawJson)),
   Response(FALSE, <<"502">>, <<"Bad Gateway">>, "text", JsNull, Some(ShortText)),
   Response(FALSE, <<"504">>, <<"Gateway Timeout">>, "text", JsNull, Some(LongText)),
   Response(FALSE, <<"500">>, <<"Internal Server Error">>, "broken", JsNull, None)}

Fulfilled(resp) == [settled |-> "fulfilled", response |-> resp]

Rejected(thrown) == [settled |-> "rejected", thrown |-> thrown]

\* every way the fetch of one request can settle
Outcomes ==
  {Fulfilled(r) : r \in OkResponses \cup ErrorResponses}
    \cup {Rejected(ErrorOf(TimeoutMsg)), Rejected(NonError)}

Return(v) == [threw |-> FALSE, value |-> v]

Throw(t) == [threw |-> TRUE, thrown |-> t]

\* Body.json(): a body can be read once; reading consumes it even when the parse then fails
ResponseJson(resp) ==
  IF resp.bodyUsed THEN [resp |-> resp, res |-> Throw(ErrorOf(BodyUsedMsg))]
  ELSE LET used == [resp EXCEPT !.bodyUsed = TRUE]
       IN  CASE resp.body.kind = "json" -> [resp |-> used, res |-> Return(resp.body.json)]
             [] resp.body.kind = "text" -> [resp |-> used, res |-> Throw(ErrorOf(SyntaxErrorMsg))]
             [] OTHER -> [resp |-> used, res |-> Throw(ErrorOf(StreamErrorMsg))]

\* Body.text()
ResponseText(resp) ==
  IF resp.bodyUsed THEN [resp |-> resp, res |-> Throw(ErrorOf(BodyUsedMsg))]
  ELSE LET used == [resp EXCEPT !.bodyUsed = TRUE]
       IN  IF resp.body.kind \in {"text", "json"}
             THEN [resp |-> used, res |-> Return(resp.body.text[1])]
             ELSE [resp |-> used, res |-> Throw(ErrorOf(StreamErrorMsg))]

\* String.prototype.substring(0, n)
Substring0(s, n) == SubSeq(s, 1, IF Len(s) < n THEN Len(s) ELSE n)

\* `Server error: ${response.status} ${response.statusText}`
StatusMessage(resp) == <<"Server error: ">> \o resp.status \o <<" ">> \o resp.statusText

\* `Server error: ${textResponse.substring(0, 200)}...`
TextMessage(text) == <<"Server error: ">> \o Substring0(text, SubstringLimit) \o <<"...">>

\* errorData && errorData.error
HasErrorField(errorData) ==
  /\ errorData # JsNull
  /\ errorData.error # None
  /\ errorData.error[1] # << >>

\* the catch (parseError) block: the text of the SAME response is read
TextFallback(resp, errorMessage) ==
  LET t == ResponseText(resp)
  IN  IF t.res.threw THEN errorMessage ELSE TextMessage(t.res.value)

\* the if (!response.ok) block: the message of the Error it throws
ServerErrorMessage(response) ==
  LET errorMessage == StatusMessage(response)
      j == ResponseJson(response)
  IN  IF j.res.threw
        THEN TextFallback(j.resp, errorMessage)
        ELSE IF HasErrorField(j.res.value) THEN j.res.value.error[1] ELSE errorMessage

\* analyzeWildfire(params), given how its fetch settles: returns results or throws
analyzeWildfire(outcome) ==
  IF outcome.settled = "rejected" THEN Throw(outcome.thrown)
  ELSE LET response == outcome.response
       IN  IF ~response.ok
             THEN Throw(ErrorOf(ServerErrorMessage(response)))
             ELSE ResponseJson(response).res

-----------------------------------------------------------------------------
(* The store (zustand): each operator is one set(...) call or one handler *)

\* setSelectedLocation that leaves the derived geometry in place
setSelectedLocationKeepsPolygons(location) ==
  /\ selectedLocation' = Some(location)
  /\ analysisResults' = None
  /\ error' = None
  /\ UNCHANGED <<burnSeverityPolygons, isLoading, visibleLayers>>

\* setSelectedLocation that also resets the loading flag
setSelectedLocationForcesIdle(location) ==
  /\ selectedLocation' = Some(location)
  /\ analysisResults' = None
  /\ burnSeverityPolygons' = None
  /\ error' = None
  /\ isLoading' = FALSE
  /\ UNCHANGED visibleLayers

setSelectedLocation(location) ==
  /\ selectedLocation' = Some(location)
  /\ analysisResults' = None
  /\ burnSeverityPolygons' = None
  /\ error' = None
  /\ UNCHANGED <<isLoading, visibleLayers>>

toggleLayerVisibility(layer) ==
  /\ visibleLayers' = [visibleLayers EXCEPT ![layer] = ~visibleLayers[layer]]
  /\ UNCHANGED <<selectedLocation, analysisResults, burnSeverityPolygons, isLoading, error>>

\* runAnalysis up to its await: set({ isLoading: true, error: null })
runAnalysisBegin ==
  /\ isLoading' = TRUE
  /\ error' = None
  /\ UNCHANGED <<selectedLocation, analysisResults, burnSeverityPolygons, visibleLayers>>

\* a catch block that drops the previous result when the request fails
runAnalysisCatchClearsResult(thrown) ==
  /\ error' = Some(IF thrown.isError THEN thrown.message ELSE UnknownErrorMsg)
  /\ isLoading' = FALSE
  /\ analysisResults' = None
  /\ burnSeverityPolygons' = None
  /\ UNCHANGED <<selectedLocation, visibleLayers>>

\* a catch block that reads error.message of whatever was thrown and leaves the flag set
runAnalysisCatchErrorsOnly(thrown) ==
  /\ error' = IF thrown.isError THEN Some(thrown.message) ELSE None
  /\ isLoading' = ~thrown.isError
  /\ UNCHANGED <<selectedLocation, analysisResults, burnSeverityPolygons, visibleLayers>>

\* the catch block of runAnalysis
runAnalysisCatch(thrown) ==
  /\ error' = Some(IF thrown.isError THEN thrown.message ELSE UnknownErrorMsg)
  /\ isLoading' = FALSE
  /\ UNCHANGED <<selectedLocation, analysisResults, burnSeverityPolygons, visibleLayers>>

\* the try block of runAnalysis after the await returned `results`
runAnalysisApply(results) ==
  IF results = JsNull
    THEN runAnalysisCatch(ErrorOf(NullAccessMsg))   \* results.burnSeverityPolygons throws
    ELSE /\ analysisResults' = Some(results)
         /\ burnSeverityPolygons' = results.burnSeverityPolygons
         /\ isLoading' = FALSE
         /\ UNCHANGED <<selectedLocation, error, visibleLayers>>

\* runAnalysis that discards the response of a request whose location is no longer selected
runAnalysisResumeFenced(params, res) ==
  IF selectedLocation # Some(ParamsLocation(params))
    THEN /\ isLoading' = FALSE
         /\ UNCHANGED <<selectedLocation, analysisResults, burnSeverityPolygons, error, visibleLayers>>
    ELSE IF res.threw THEN runAnalysisCatch(res.thrown) ELSE runAnalysisApply(res.value)

\* runAnalysis(params) from its await on, given what analyzeWildfire did
runAnalysisResume(params, res) ==
  IF res.threw THEN runAnalysisCatch(res.thrown) ELSE runAnalysisApply(res.value)

\* clearAnalysis that resets the selection too
clearAnalysisClearsSelection ==
  /\ analysisResults' = None
  /\ burnSeverityPolygons' = None
  /\ error' = None
  /\ selectedLocation' = None
  /\ UNCHANGED <<isLoading, visibleLayers>>

clearAnalysis ==
  /\ analysisResults' = None
  /\ burnSeverityPolygons' = None
  /\ error' = None
  /\ UNCHANGED <<selectedLocation, isLoading, visibleLayers>>

\* handleUseMockData without its selectedLocation guard
handleUseMockDataUnguarded(mockResults) ==
  /\ analysisResults' = Some(mockResults)
  /\ burnSeverityPolygons' = mockResults.burnSeverityPolygons
  /\ error' = None
  /\ isLoading' = FALSE
  /\ UNCHANGED <<selectedLocation, visibleLayers>>

\* AnalysisPanel.handleUseMockData, `mockResults` being what getMockAnalysisResults returned
handleUseMockData(mockResults) ==
  IF selectedLocation = None
    THEN UNCHANGED storeVars
    ELSE /\ analysisResults' = Some(mockResults)
         /\ burnSeverityPolygons' = mockResults.burnSeverityPolygons
         /\ error' = None
         /\ isLoading' = FALSE
         /\ UNCHANGED <<selectedLocation, visibleLayers>>

-----------------------------------------------------------------------------------------------------------------------------------------------------
(* The session: store operations, the requests in flight and the history *)

Request(id, params) == [id |-> id, params |-> params]

InflightIds == {r.id : r \in inflight}

Op(name) == [op |-> name]

\* history: who wrote analysisResults (id 0: the mock substitution)
WrittenBy(id, loc) == [id |-> id, loc |-> loc]

\* the store's runAnalysis(params) called: everything up to the suspension at the await
CallRunAnalysis(params, opname) ==
  /\ fetchCount < MaxRequests
  /\ runAnalysisBegin
  /\ fetchCount' = fetchCount + 1
  /\ inflight' = inflight \cup {Request(fetchCount + 1, params)}
  /\ lastOp' = [op |-> opname, params |-> params, id |-> fetchCount + 1]
  /\ UNCHANGED resultReq

\* the fetch of request r settles with outcome o and runAnalysis runs to its end
Resume(r, o) ==
  LET res == analyzeWildfire(o)
  IN  /\ runAnalysisResume(r.params, res)
      /\ inflight' = inflight \ {r}
      /\ resultReq' = IF ~res.threw /\ analysisResults' = Some(res.value)
                        THEN Some(WrittenBy(r.id, ParamsLocation(r.params)))
                        ELSE resultReq
      /\ lastOp' = [op |-> "settle", req |-> r, outcome |-> o]
      /\ UNCHANGED fetchCount

\* setSelectedLocation(loc) called
CallSetSelectedLocation(loc) ==
  /\ setSelectedLocation(loc)
  /\ UNCHANGED inflight
  /\ resultReq' = None
  /\ UNCHANGED fetchCount

\* handleUseMockData called, getMockAnalysisResults returning m
CallUseMockData(m) ==
  /\ handleUseMockData(m)
  /\ UNCHANGED inflight
  /\ resultReq' = IF analysisResults' = Some(m) /\ selectedLocation # None
                    THEN Some(WrittenBy(0, selectedLocation[1]))
                    ELSE resultReq
  /\ lastOp' = [op |-> "useMockResult", mock |-> m]
  /\ UNCHANGED fetchCount

\* toggleLayerVisibility("burnSeverity") called
CallToggleLayer ==
  /\ toggleLayerVisibility("burnSeverity")
  /\ UNCHANGED inflight
  /\ lastOp' = Op("toggleLayer")
  /\ UNCHANGED <<fetchCount, resultReq>>

SelectLocation(loc) ==
  /\ CallSetSelectedLocation(loc)
  /\ lastOp' = [op |-> "selectLocation", loc |-> loc]
  /\ UNCHANGED <<effectPending, mapVars, serverVars>>

RunAnalysis(loc) ==
  /\ CallRunAnalysis(AnalysisParams(loc), "runAnalysis")
  /\ UNCHANGED <<effectPending, mapVars, serverVars>>

Settle(r, o) ==
  /\ Resume(r, o)
  /\ UNCHANGED <<effectPending, mapVars, serverVars>>

UseMockResult(m) ==
  /\ CallUseMockData(m)
  /\ UNCHANGED <<effectPending, mapVars, serverVars>>

Clear ==
  /\ clearAnalysis
  /\ UNCHANGED inflight
  /\ resultReq' = None
  /\ lastOp' = Op("clear")
  /\ UNCHANGED <<fetchCount, effectPending, mapVars, serverVars>>

ToggleLayer ==
  /\ CallToggleLayer
  /\ UNCHANGED <<effectPending, mapVars, serverVars>>

\* create(...): the initial state of the store; nothing is rendered
Init ==
  /\ selectedLocation = None
  /\ analysisResults = None
  /\ burnSeverityPolygons = None
  /\ isLoading = FALSE
  /\ error = None
  /\ visibleLayers = [burnSeverity |-> TRUE]
  /\ inflight = {}
  /\ fetchCount = 0
  /\ effectPending = FALSE
  /\ lastOp = Op("init")
  /\ resultReq = None
  /\ featureIdx = 0
  /\ points = << >>
  /\ request = None
  /\ host = None
  /\ reply = None
  /\ command = None

\* the store's operations called directly, in any order, with requests settling at any time
Next ==
  \/ \E loc \in Locations : SelectLocation(loc)
  \/ \E loc \in Locations : RunAnalysis(loc)
  \/ \E r \in inflight, o \in Outcomes : Settle(r, o)
  \/ \E m \in MockResults : UseMockResult(m)
  \/ Clear
  \/ ToggleLayer

Spec == Init /\ [][Next]_vars

\* the remote call of every request in flight eventually settles
FairSpec == Spec /\ WF_vars(\E r \in inflight, o \in Outcomes : Settle(r, o))

-----------------------------------------------------------------------------
(* The view: the map's click handler and the analysis panel drive the store *)

\* a dependency array that lists the loading flag as well
EffectDepsWithLoading == {"selectedLocation", "isLoading"}

\* an empty dependency array: the effect runs once, when the panel mounts
EffectDepsNone == {}

\* the dependency array of the panel's auto-run effect
EffectDeps == {"selectedLocation"}

\* whether a store update that assigned the fields `written` re-runs the effect
\* (a field assigned a fresh object or a different value is a changed dependency)
EffectScheduled(written) == (written \cap EffectDeps) # {}

\* AnalysisPanel.handleRunAnalysis
handleRunAnalysis(opname) ==
  IF selectedLocation = None
    THEN /\ UNCHANGED <<storeVars, inflight, fetchCount, resultReq>>
         /\ lastOp' = [op |-> opname, skipped |-> TRUE]
    ELSE CallRunAnalysis(AnalysisParams(selectedLocation[1]), opname)

\* a click handler without the isLoading check
MapClickWhileLoading(loc) ==
  /\ ~effectPending
  /\ fetchCount < MaxRequests
  /\ CallSetSelectedLocation(loc)
  /\ effectPending' = EffectScheduled({"selectedLocation", "analysisResults", "burnSeverityPolygons", "error"})
  /\ lastOp' = [op |-> "mapClick", loc |-> loc, accepted |-> TRUE]
  /\ UNCHANGED <<mapVars, serverVars>>

\* MapClickHandler.handleClick for a click at loc
MapClick(loc) ==
  /\ ~effectPending
  /\ fetchCount < MaxRequests
  /\ IF isLoading
       THEN /\ UNCHANGED <<storeVars, inflight, fetchCount, resultReq, effectPending>>
            /\ lastOp' = [op |-> "mapClick", loc |-> loc, accepted |-> FALSE]
       ELSE /\ CallSetSelectedLocation(loc)
            /\ effectPending' = EffectScheduled({"selectedLocation", "analysisResults", "burnSeverityPolygons", "error"})
            /\ lastOp' = [op |-> "mapClick", loc |-> loc, accepted |-> TRUE]
  /\ UNCHANGED <<mapVars, serverVars>>

\* the panel's useEffect(..., [selectedLocation]) callback runs
AutoRunEffect ==
  /\ effectPending
  /\ IF selectedLocation # None /\ ~isLoading /\ analysisResults = None
       THEN /\ handleRunAnalysis("autoRun")
            /\ effectPending' = EffectScheduled({"isLoading", "error"})
       ELSE /\ UNCHANGED <<storeVars, inflight, fetchCount, resultReq>>
            /\ effectPending' = FALSE
            /\ lastOp' = [op |-> "autoRun", skipped |-> TRUE]
  /\ UNCHANGED <<mapVars, serverVars>>

\* a Run Analysis button that stays enabled while a request is loading
ClickRunAnalysisWhileLoading ==
  /\ ~effectPending
  /\ selectedLocation # None
  /\ handleRunAnalysis("clickRunAnalysis")
  /\ effectPending' = EffectScheduled({"isLoading", "error"})
  /\ UNCHANGED <<mapVars, serverVars>>

\* the Run Analysis button, enabled unless !selectedLocation || isLoading
ClickRunAnalysis ==
  /\ ~effectPending
  /\ selectedLocation # None /\ ~isLoading
  /\ handleRunAnalysis("clickRunAnalysis")
  /\ effectPending' = EffectScheduled({"isLoading", "error"})
  /\ UNCHANGED <<mapVars, serverVars>>

\* the Use Mock Data button, enabled unless isLoading
ClickUseMockData(m) ==
  /\ ~effectPending
  /\ ~isLoading
  /\ CallUseMockData(m)
  /\ effectPending' = EffectScheduled({"analysisResults", "burnSeverityPolygons", "isLoading", "error"})
  /\ UNCHANGED <<mapVars, serverVars>>

\* the Burn Severity layer button of the map
ClickToggleLayer ==
  /\ ~effectPending
  /\ CallToggleLayer
  /\ effectPending' = EffectScheduled({"visibleLayers"})
  /\ UNCHANGED <<mapVars, serverVars>>

\* a request settles while the page is rendered
ViewSettle(r, o) ==
  /\ ~effectPending
  /\ Resume(r, o)
  /\ effectPending' = EffectScheduled({"analysisResults", "burnSeverityPolygons", "isLoading", "error"})
  /\ UNCHANGED <<mapVars, serverVars>>

ViewNext ==
  \/ \E loc \in Locations : MapClick(loc)
  \/ AutoRunEffect
  \/ ClickRunAnalysis
  \/ \E m \in MockResults : ClickUseMockData(m)
  \/ ClickToggleLayer
  \/ \E r \in inflight, o \in Outcomes : ViewSettle(r, o)

\* the session driven only through the rendered page
ViewSpec == Init /\ [][ViewNext]_vars

\* React runs a scheduled effect once the render that scheduled it is committed
ViewFairSpec == ViewSpec /\ WF_vars(AutoRunEffect)

-----
(* The map view: extractPointsFromPolygons *)

Max(a, b) == IF a > b THEN a ELSE b

\* no stride at all: every vertex is taken
SampleStrideOne(len) == 1

\* a stride rounded up instead of down
SampleStrideCeil(len) == Max(1, (len + 9) \div 10)

\* Math.max(1, Math.floor(ring.length / 10))
SampleStride(len) == Max(1, len \div 10)

\* the coordinate pair copied in source order
BurnSeverityPointUnswapped(coord, properties) ==
  [latlng |-> <<coord[1], coord[2]>>,
   properties |-> [severity |-> properties.severity, area |-> properties.area]]

\* { latlng: [coord[1], coord[0]], properties: { severity, area } }
BurnSeverityPoint(coord, properties) ==
  [latlng |-> <<coord[2], coord[1]>>,
   properties |-> [severity |-> properties.severity, area |-> properties.area]]

\* for (let i = ...; i < ring.length; i += stride) points.push(...): the points pushed from i on
RECURSIVE SampleRing(_, _, _)
SampleRing(ring, i, properties) ==
  IF i < Len(ring)
    THEN <<BurnSeverityPoint(ring[i + 1], properties)>>
           \o SampleRing(ring, i + SampleStride(Len(ring)), properties)
    ELSE << >>

\* rings.forEach(ring => ...) from ring k on
RECURSIVE SampleRings(_, _, _)
SampleRings(rings, k, properties) ==
  IF k > Len(rings) THEN << >>
  ELSE SampleRing(rings[k], 0, properties) \o SampleRings(rings, k + 1, properties)

\* coordinates.forEach(polygon => polygon.forEach(ring => ...)) from polygon k on
RECURSIVE SamplePolygons(_, _, _)
SamplePolygons(polygons, k, properties) ==
  IF k > Len(polygons) THEN << >>
  ELSE SampleRings(polygons[k], 1, properties) \o SamplePolygons(polygons, k + 1, properties)

\* processFeature(feature): the points it pushes
processFeature(feature) ==
  IF feature.geometry = None THEN << >>
  ELSE LET geometry == feature.geometry[1]
       IN  CASE geometry.type = "Point" ->
                  <<BurnSeverityPoint(geometry.coordinates, feature.properties)>>
             [] geometry.type = "Polygon" ->
                  SampleRings(geometry.coordinates, 1, feature.properties)
             [] geometry.type = "MultiPolygon" ->
                  SamplePolygons(geometry.coordinates, 1, feature.properties)
             [] OTHER -> << >>

\* the features extractPointsFromPolygons passes to processFeature, in order
FeaturesToProcess ==
  IF burnSeverityPolygons = None THEN << >>
  ELSE LET g == burnSeverityPolygons[1]
       IN  CASE g.type = "FeatureCollection" -> g.features
             [] g.type = "Feature" -> <<g>>
             [] OTHER -> << >>

\* extractPointsFromPolygons has returned `points`
ExtractDone == featureIdx = Len(FeaturesToProcess)

\* one callback of forEach(processFeature) (or the single processFeature call)
ProcessFeature ==
  /\ featureIdx < Len(FeaturesToProcess)
  /\ points' = points \o processFeature(FeaturesToProcess[featureIdx + 1])
  /\ featureIdx' = featureIdx + 1
  /\ lastOp' = Op("processFeature")
  /\ UNCHANGED <<storeVars, inflight, fetchCount, effectPending, resultReq, serverVars>>

\* the layer button is pressed once the points are drawn
RenderToggle ==
  /\ ExtractDone
  /\ ToggleLayer

\* every severity from 5 up drawn as Extreme
getBurnSeverityColorClamped(severity) ==
  CASE severity = 1 -> "#69B34C"
    [] severity = 2 -> "#FAB733"
    [] severity = 3 -> "#FF8E15"
    [] severity = 4 -> "#FF4E11"
    [] severity >= 5 -> "#FF0D0D"
    [] OTHER -> "#CCCCCC"

\* switch (severity) { case 1: ... case 5: ...; default: "#CCCCCC" }
getBurnSeverityColor(severity) ==
  CASE severity = 1 -> "#69B34C"
    [] severity = 2 -> "#FAB733"
    [] severity = 3 -> "#FF8E15"
    [] severity = 4 -> "#FF4E11"
    [] severity = 5 -> "#FF0D0D"
    [] OTHER -> "#CCCCCC"

\* switch (severity) { case 1: "Low" ... case 5: "Extreme"; default: "Unknown" }
getSeverityLabel(severity) ==
  CASE severity = 1 -> "Low"
    [] severity = 2 -> "Moderate"
    [] severity = 3 -> "High"
    [] severity = 4 -> "Very High"
    [] severity = 5 -> "Extreme"
    [] OTHER -> "Unknown"

\* point.properties?.severity || 0
SeverityOrZero(point) ==
  IF point.properties.severity = None THEN 0 ELSE point.properties.severity[1]

\* the CircleMarker drawn for one point
CircleMarker(point) ==
  [center |-> point.latlng,
   fillColor |-> getBurnSeverityColor(SeverityOrZero(point)),
   color |-> getBurnSeverityColor(SeverityOrZero(point)),
   popup |-> getSeverityLabel(SeverityOrZero(point))]

\* visibleLayers.burnSeverity && burnSeverityPoints.map(...): the markers on the map once
\* extractPointsFromPolygons has returned
CircleMarkers ==
  IF visibleLayers.burnSeverity /\ ExtractDone
    THEN [i \in 1..Len(points) |-> CircleMarker(points[i])]
    ELSE << >>

\* the legend's severityClasses
severityClasses ==
  <<[label |-> "Low", color |-> "#69B34C"],
    [label |-> "Moderate", color |-> "#FAB733"],
    [label |-> "High", color |-> "#FF8E15"],
    [label |-> "Very High", color |-> "#FF4E11"],
    [label |-> "Extreme", color |-> "#FF0D0D"]>>

NoProps == Props(None, None)

HighSeverity == Props(Some(3), Some(2))

\* features whose ring lengths cover 0..MaxRingLen
RingFeatures ==
  {Feature("Polygon", <<MkRing(1, n)>>, HighSeverity) : n \in 0..MaxRingLen}
    \cup {Feature("Polygon", <<MkRing(1, n), MkRing(2, 5)>>, NoProps) : n \in {0, 4, 12, 25}}
    \cup {Feature("MultiPolygon", <<<<MkRing(1, 3)>>, <<MkRing(2, n), MkRing(3, 11)>>>>, Props(Some(5), None)) :
            n \in 0..MaxRingLen}

\* the severity values features come with
SeverityInputs == ((-MaxSeverity)..MaxSeverity) \cup {99}

\* one Point feature per severity value
SeverityFeatures == {Feature("Point", <<10, 20>>, Props(Some(sv), None)) : sv \in SeverityInputs}

OtherFeatures ==
  {Feature("Point", <<10, 20>>, HighSeverity),
   Feature("Point", <<-122, 37>>, NoProps),
   Feature("LineString", MkRing(1, 12), HighSeverity),
   [type |-> "Feature", geometry |-> None, properties |-> NoProps]}

\* the features mixed collections are built from
MixFeatures ==
  {Feature("Point", <<10, 20>>, HighSeverity),
   Feature("Polygon", <<MkRing(4, 25), MkRing(5, 3)>>, Props(Some(1), None)),
   Feature("MultiPolygon", <<<<MkRing(6, 11)>>, <<MkRing(7, 20)>>>>, Props(Some(2), Some(1))),
   Feature("LineString", MkRing(8, 12), HighSeverity)}

\* the burnSeverityPolygons values given to the map view
GeoInputs ==
  {None}
    \cup {Some(f) : f \in RingFeatures \cup OtherFeatures \cup SeverityFeatures}
    \cup {Some(FeatureCollection(<<f>>)) : f \in RingFeatures \cup OtherFeatures \cup SeverityFeatures}
    \cup {Some(FeatureCollection(fs)) : fs \in UNION {[1..k -> MixFeatures] : k \in 0..MaxFeatures}}
    \cup {Some([type |-> "GeometryCollection", geometries |-> << >>])}

\* the store after an analysis that returned geometry g, handed to the map view
ReducerInit ==
  /\ burnSeverityPolygons \in GeoInputs
  /\ analysisResults = IF burnSeverityPolygons = None THEN None
                       ELSE Some([ResultWithPolygons EXCEPT !.burnSeverityPolygons = burnSeverityPolygons])
  /\ selectedLocation = IF analysisResults = None THEN None ELSE Some(SanFrancisco)
  /\ isLoading = FALSE
  /\ error = None
  /\ visibleLayers = [burnSeverity |-> TRUE]
  /\ inflight = {}
  /\ fetchCount = 0
  /\ effectPending = FALSE
  /\ lastOp = Op("init")
  /\ resultReq = IF analysisResults = None THEN None ELSE Some(WrittenBy(1, SanFrancisco))
  /\ featureIdx = 0
  /\ points = << >>
  /\ request = None
  /\ host = None
  /\ reply = None
  /\ command = None

ReducerNext ==
  \/ ProcessFeature
  \/ RenderToggle

\* the map view deriving its points from a stored geometry
ReducerSpec == ReducerInit /\ [][ReducerNext]_vars

-----------------------------------------------------------------------------
(* The endpoint: POST /api/analyze-wildfire *)

\* bufferKm = 5 in the destructuring of the body
DefaultBufferKm == 5

RequestBody(lat, lng, pre, post, buf) ==
  [latitude |-> lat, longitude |-> lng, preFireDate |-> pre, postFireDate |-> post, bufferKm |-> buf]

\* the bodies sent to the endpoint: a JSON object whose fields are present or not (dates
\* may be the empty string), the JSON value null, or text that is not JSON
RequestBodies ==
  {RequestBody(lat, lng, pre, post, buf) :
     lat \in {None, Some(0), Some(37), Some(-90)},
     lng \in {None, Some(0), Some(-122), Some(180)},
     pre \in {None, Some(<< >>), Some(PreFireDate)},
     post \in {None, Some(<< >>), Some(PostFireDate)},
     buf \in {None, Some(10)}}

Requests ==
  {[kind |-> "object", json |-> b] : b \in RequestBodies}
    \cup {[kind |-> "null", json |-> JsNull], [kind |-> "notjson", json |-> JsNull]}

\* an image path the script wrote into results.json: already relative, or a file path
RelativeImage == <<"/", "analysis_images/", "nbr.png">>

ScriptImage == <<"scripts/", "out/", "nbr.png">>

\* what results.json holds after the script ran
ResultsFiles ==
  {[kind |-> "absent"], [kind |-> "notjson"], [kind |-> "null"]}
    \cup {[kind |-> "results", results |-> [dataSource |-> "Sentinel-2", totalBurnedArea |-> 42, images |-> img]] :
            img \in {None, Some(RelativeImage), Some(ScriptImage)}}

\* the server: whether scripts/args.py exists, how the script ends, what it leaves in
\* results.json, and the image file it names ("exists", "copyfails" or "missing")
Hosts ==
  [scriptExists : BOOLEAN, exec : {"ok", "fails"}, resultsFile : ResultsFiles,
   imageFile : {"exists", "copyfails", "missing"}]

ScriptNotFoundMsg ==
  <<"Python script not found at ", "scripts/args.py",
    ". Please make sure args.py is in the scripts directory.">>

NoResultsMsg ==
  <<"Analysis failed to produce results. The Python script did not generate a results.json file.">>

CommandFailedMsg == <<"Command failed: python scripts/args.py">>

NullImagesMsg == <<"Cannot read properties of null (reading 'images')">>

NullDestructureMsg == <<"Cannot destructure property 'latitude' of 'body' as it is null.">>

\* `Error executing Python script: ${execError.message}`
ExecErrorMsg(message) == <<"Error executing Python script: ">> \o message

\* NextResponse.json(body, { status })
NextResponseJson(body, status) == [status |-> status, body |-> body]

\* await request.json()
RequestJson(req) ==
  IF req.kind = "notjson" THEN Throw(ErrorOf(SyntaxErrorMsg)) ELSE Return(req.json)

\* !latitude, !longitude: true for a missing number and for 0
FalsyNumber(v) == v = None \/ v = Some(0)

\* !preFireDate, !postFireDate: true for a missing string and for ""
FalsyString(v) == v = None \/ v = Some(<< >>)

\* the python command line built from the body
Command(body, bufferKm) ==
  [latitude |-> body.latitude[1], longitude |-> body.longitude[1],
   preFireDate |-> body.preFireDate[1], postFireDate |-> body.postFireDate[1],
   buffer |-> bufferKm]

\* Object.keys(results.images).forEach(...): the path left for the one image
CopyImage(imagePath, h) ==
  IF Head(imagePath) = "/" THEN imagePath
  ELSE IF h.imageFile = "exists"
         THEN <<"/", "analysis_images/", imagePath[Len(imagePath)]>>
         ELSE <<"/", "placeholder.svg?height=400&width=600&text=", "nbr">>

\* if (results.images) { ... }
CopyImages(results, h) ==
  IF results.images = None THEN results
  ELSE [results EXCEPT !.images = Some(CopyImage(results.images[1], h))]

\* the outer catch: error instanceof Error ? error.message : "An unknown error occurred"
OuterCatch(thrown) ==
  NextResponseJson(ErrorBody(Some(IF thrown.isError THEN thrown.message ELSE UnknownErrorMsg)), 500)

\* POST from the destructuring of the body on
RunScript(body, h) ==
  LET bufferKm == IF body.bufferKm = None THEN DefaultBufferKm ELSE body.bufferKm[1]
  IN  IF FalsyNumber(body.latitude) \/ FalsyNumber(body.longitude)
           \/ FalsyString(body.preFireDate) \/ FalsyString(body.postFireDate)
        THEN [reply |-> NextResponseJson(ErrorBody(Some(MissingParamsMsg)), 400), command |-> None]
      ELSE IF ~h.scriptExists
        THEN [reply |-> NextResponseJson(ErrorBody(Some(ScriptNotFoundMsg)), 500), command |-> None]
      ELSE LET cmd == Some(Command(body, bufferKm))
               file == h.resultsFile
           IN  CASE h.exec = "fails" ->
                      [reply |-> NextResponseJson(ErrorBody(Some(ExecErrorMsg(CommandFailedMsg))), 500),
                       command |-> cmd]
                 [] h.exec = "ok" /\ file.kind = "absent" ->
                      [reply |-> NextResponseJson(ErrorBody(Some(NoResultsMsg)), 500), command |-> cmd]
                 [] h.exec = "ok" /\ file.kind = "notjson" ->
                      [reply |-> NextResponseJson(ErrorBody(Some(ExecErrorMsg(SyntaxErrorMsg))), 500),
                       command |-> cmd]
                 [] h.exec = "ok" /\ file.kind = "null" ->
                      [reply |-> NextResponseJson(ErrorBody(Some(ExecErrorMsg(NullImagesMsg))), 500),
                       command |-> cmd]
                 [] OTHER ->
                      [reply |-> NextResponseJson(CopyImages(file.results, h), 200), command |-> cmd]

\* POST(request) on the server h: the response returned and the command executed
POST(req, h) ==
  LET parsed == RequestJson(req)
  IN  IF parsed.threw
        THEN [reply |-> OuterCatch(parsed.thrown), command |-> None]
      ELSE IF req.kind = "null"
        THEN [reply |-> OuterCatch(ErrorOf(NullDestructureMsg)), command |-> None]
      ELSE RunScript(parsed.value, h)

\* the endpoint handles the request it received
HandlePOST ==
  /\ reply = None
  /\ reply' = Some(POST(request, host).reply)
  /\ command' = POST(request, host).command
  /\ lastOp' = Op("POST")
  /\ UNCHANGED <<request, host>>
  /\ UNCHANGED <<storeVars, inflight, fetchCount, effectPending, resultReq, mapVars>>

\* a request has arrived at the endpoint of some server
EndpointInit ==
  /\ request \in Requests
  /\ host \in Hosts
  /\ reply = None
  /\ command = None
  /\ selectedLocation = None
  /\ analysisResults = None
  /\ burnSeverityPolygons = None
  /\ isLoading = FALSE
  /\ error = None
  /\ visibleLayers = [burnSeverity |-> TRUE]
  /\ inflight = {}
  /\ fetchCount = 0
  /\ effectPending = FALSE
  /\ lastOp = Op("init")
  /\ resultReq = None
  /\ featureIdx = 0
  /\ points = << >>

EndpointNext == HandlePOST

\* the endpoint answering one request
EndpointSpec == EndpointInit /\ [][EndpointNext]_vars

-----------------------------------------------------------------------------
(* Properties *)

\* what analyzeWildfire did in the settle step recorded in lastOp
LastRes == analyzeWildfire(lastOp.outcome)

ClientFailed == lastOp.op = "settle" /\ LastRes.threw

\* the client returned a result object
ClientReturned == lastOp.op = "settle" /\ ~LastRes.threw /\ LastRes.value # JsNull

\* C1: when the client call of a runAnalysis fails, the session ends not loading with
\* the error set to the failure's message, and the result is left as it was: neither
\* the call nor the failure touches it, so a call that fails ends with the result it
\* started from.
C1_FailureKeepsResult ==
  [][/\ lastOp'.op = "runAnalysis" => analysisResults' = analysisResults
     /\ (lastOp'.op = "settle" /\ analyzeWildfire(lastOp'.outcome).threw) =>
          LET thrown == analyzeWildfire(lastOp'.outcome).thrown
          IN  /\ ~isLoading'
              /\ error' # None
              /\ thrown.isError => error' = Some(thrown.message)
              /\ analysisResults' = analysisResults
              /\ burnSeverityPolygons' = burnSeverityPolygons
              /\ selectedLocation' = selectedLocation]_vars

\* C1 witness: a run started from a successful result fails with "timeout"; the result stays
C1_Witness ==
  /\ ClientFailed
  /\ LastRes.thrown = ErrorOf(TimeoutMsg)
  /\ analysisResults \in {Some(r) : r \in Results}
  /\ resultReq[1].id < lastOp.req.id
  /\ error = Some(TimeoutMsg)
  /\ ~isLoading

\* C2 as stated: selectLocation(loc) leaves selectedLocation = loc, no result, no error
\* and the status Idle, also while a request is in flight.
C2_SelectForcesIdle ==
  lastOp.op = "selectLocation" =>
    /\ selectedLocation = Some(lastOp.loc)
    /\ analysisResults = None
    /\ error = None
    /\ ~isLoading

\* C2 amended: selectLocation(loc) leaves selectedLocation = loc, no result, no geometry
\* and no error, and leaves isLoading as it was: Idle when nothing was loading, still
\* Running when a request is in flight.
C2_SelectKeepsLoading ==
  [][lastOp'.op = "selectLocation" =>
       /\ selectedLocation' = Some(lastOp'.loc)
       /\ analysisResults' = None
       /\ burnSeverityPolygons' = None
       /\ error' = None
       /\ isLoading' = isLoading
       /\ visibleLayers' = visibleLayers]_vars

\* C2 witness: a location was selected while a request is in flight
C2_Witness ==
  /\ lastOp.op = "selectLocation"
  /\ inflight # {}
  /\ isLoading
  /\ selectedLocation = Some(lastOp.loc)

\* C3: no cancellation and no fencing: the result of every request that succeeds is
\* written into the session, whatever the selected location is by then and whatever
\* requests were issued or completed after it.
C3_EveryResponseApplied ==
  ClientReturned =>
    /\ analysisResults = Some(LastRes.value)
    /\ resultReq = Some(WrittenBy(lastOp.req.id, ParamsLocation(lastOp.req.params)))

\* C3 witness: the result shown was produced by a request for another location than the
\* selected one, older than the last request issued, which has already completed
C3_Witness ==
  /\ ClientReturned
  /\ selectedLocation # None
  /\ resultReq # None
  /\ resultReq[1].loc # selectedLocation[1]
  /\ resultReq[1].id \in 1..(fetchCount - 1)
  /\ inflight = {}

\* C4 as stated: runAnalysis sets isLoading and clears the error, leaving result and
\* selection; and right after a request succeeds with V the session is Succeeded:
\* not loading, no error, result V, geometry V's.
C4_SuccessIsSucceeded ==
  [][/\ lastOp'.op = "runAnalysis" =>
          /\ isLoading' /\ error' = None
          /\ analysisResults' = analysisResults /\ selectedLocation' = selectedLocation
     /\ (lastOp'.op = "settle" /\ ~analyzeWildfire(lastOp'.outcome).threw
           /\ analyzeWildfire(lastOp'.outcome).value # JsNull) =>
          LET V == analyzeWildfire(lastOp'.outcome).value
          IN  /\ ~isLoading'
              /\ error' = None
              /\ analysisResults' = Some(V)
              /\ burnSeverityPolygons' = V.burnSeverityPolygons]_vars

\* C5 as stated: useMockResult(fixed) from any state, a location selected or not, gives
\* result = fixed, no error, not loading, with no request issued and the selection kept.
C5_MockFromAnyState ==
  [][lastOp'.op = "useMockResult" =>
       /\ analysisResults' = Some(lastOp'.mock)
       /\ error' = None
       /\ ~isLoading'
       /\ fetchCount' = fetchCount
       /\ InflightIds' = InflightIds
       /\ selectedLocation' = selectedLocation]_vars

\* C5 amended: with a location selected, useMockResult(fixed) gives result = fixed,
\* geometry = fixed's, no error, not loading; with no location selected it changes
\* nothing. Either way no request is issued and the selection is kept.
C5_MockNeedsLocation ==
  [][lastOp'.op = "useMockResult" =>
       /\ selectedLocation # None =>
            /\ analysisResults' = Some(lastOp'.mock)
            /\ burnSeverityPolygons' = lastOp'.mock.burnSeverityPolygons
            /\ error' = None
            /\ ~isLoading'
       /\ selectedLocation = None => UNCHANGED storeVars
       /\ fetchCount' = fetchCount
       /\ InflightIds' = InflightIds
       /\ selectedLocation' = selectedLocation
       /\ visibleLayers' = visibleLayers]_vars

\* C5 witness: the mock result replaced the state of a session with a request in flight
C5_Witness ==
  /\ lastOp.op = "useMockResult"
  /\ selectedLocation # None
  /\ inflight # {}
  /\ analysisResults = Some(lastOp.mock)
  /\ ~isLoading

\* C6 as stated: clear() leaves no result, no geometry, no error and the status Idle, also
\* while a request is in flight, and keeps the selection and the layer visibility.
C6_ClearForcesIdle ==
  [][lastOp'.op = "clear" =>
       /\ analysisResults' = None
       /\ burnSeverityPolygons' = None
       /\ error' = None
       /\ ~isLoading'
       /\ selectedLocation' = selectedLocation
       /\ visibleLayers' = visibleLayers]_vars

\* C6 amended: clear() leaves no result, no geometry and no error, and leaves isLoading,
\* the selection and the layer visibility as they were.
C6_ClearKeepsLoading ==
  [][lastOp'.op = "clear" =>
       /\ analysisResults' = None
       /\ burnSeverityPolygons' = None
       /\ error' = None
       /\ isLoading' = isLoading
       /\ selectedLocation' = selectedLocation
       /\ visibleLayers' = visibleLayers]_vars

\* C6 witness: clear() ran with a location selected and a request in flight
C6_Witness ==
  /\ lastOp.op = "clear"
  /\ inflight # {}
  /\ isLoading
  /\ selectedLocation # None

\* C7: every runAnalysis call ends, whatever the remote outcome: with remote calls that
\* settle, a session that is loading or has calls pending comes to rest, not loading
\* and with no call pending; runAnalysis handles every outcome (none stops it); the
\* session is not loading right after a call ended; and every failure leaves an error
\* string, the catch-all text when the thrown value is not an Error.
C7_EveryRunTerminates ==
  /\ (isLoading \/ inflight # {}) ~> (~isLoading /\ inflight = {})
  /\ [](\A r \in inflight, o \in Outcomes : ENABLED Settle(r, o))
  /\ [](lastOp.op = "settle" =>
          /\ ~isLoading
          /\ ~ClientReturned => error # None
          /\ (LastRes.threw /\ ~LastRes.thrown.isError) => error = Some(UnknownErrorMsg))

\* C7 witness: the remote call failed with a value that is not an Error
C7_Witness ==
  /\ ClientFailed
  /\ ~LastRes.thrown.isError
  /\ error = Some(UnknownErrorMsg)
  /\ ~isLoading
  /\ inflight = {}

\* C8: no retries: a request is issued only by a runAnalysis call made by the Run
\* Analysis button or by the auto-start effect, one request per call; the auto-start
\* effect runs only right after an accepted map click; and a request that settles,
\* failed or not, issues no request and schedules no auto-start.
C8_NoRetries ==
  [][/\ fetchCount' \in {fetchCount, fetchCount + 1}
     /\ fetchCount' = fetchCount + 1 =>
          /\ lastOp'.op \in {"clickRunAnalysis", "autoRun"}
          /\ InflightIds' = InflightIds \cup {fetchCount'}
          /\ Cardinality(inflight') = Cardinality(inflight) + 1
     /\ lastOp'.op = "autoRun" => (lastOp.op = "mapClick" /\ lastOp.accepted)
     /\ lastOp'.op = "settle" =>
          /\ fetchCount' = fetchCount
          /\ InflightIds' = InflightIds \ {lastOp'.req.id}
          /\ ~effectPending']_vars

\* C8 witness: a request failed and the page is at rest: a location selected, no result,
\* not loading, the error shown, nothing in flight and no effect scheduled
C8_Witness ==
  /\ ClientFailed
  /\ selectedLocation # None
  /\ analysisResults = None
  /\ error # None
  /\ ~isLoading
  /\ inflight = {}
  /\ ~effectPending
  /\ fetchCount = 1

\* the message C9 states for a response with a non-success status
ThreeTierMessage(resp) ==
  IF resp.body.kind = "json" /\ HasErrorField(resp.body.json)
    THEN resp.body.json.error[1]
    ELSE IF resp.body.kind \in {"json", "text"}
           THEN TextMessage(resp.body.text[1])
           ELSE StatusMessage(resp)

\* C9 as stated: for a response with a non-success status the failure message is the
\* JSON body's error string, else the first 200 characters of the raw body, and the
\* status-code message only if the body cannot be read at all.
C9_ThreeTierPolicy ==
  (lastOp.op = "settle" /\ lastOp.outcome.settled = "fulfilled" /\ ~lastOp.outcome.response.ok) =>
    /\ LastRes = Throw(ErrorOf(ThreeTierMessage(lastOp.outcome.response)))
    /\ error = Some(ThreeTierMessage(lastOp.outcome.response))

CeilDiv(n, d) == (n + d - 1) \div d

\* the points C10 states for one ring: the vertices at 0, s, 2s, ... below N
RingSamples(ring, properties) ==
  LET N == Len(ring)
      s == IF N \div 10 >= 1 THEN N \div 10 ELSE 1
      idx == {i \in 0..(N - 1) : i % s = 0}
  IN  [k \in 1..Cardinality(idx) |-> BurnSeverityPoint(ring[(k - 1) * s + 1], properties)]

RECURSIVE Flatten(_)
Flatten(seqs) == IF seqs = << >> THEN << >> ELSE Head(seqs) \o Flatten(Tail(seqs))

\* the rings of a feature, polygon by polygon
RingsOf(feature) ==
  IF feature.geometry = None THEN << >>
  ELSE LET g == feature.geometry[1]
       IN  CASE g.type = "Polygon" -> g.coordinates
             [] g.type = "MultiPolygon" -> Flatten(g.coordinates)
             [] OTHER -> << >>

\* the points C10 states for one feature (a Point feature gives its one point)
FeatureSamples(feature) ==
  IF feature.geometry # None /\ feature.geometry[1].type = "Point"
    THEN <<BurnSeverityPoint(feature.geometry[1].coordinates, feature.properties)>>
    ELSE LET rings == RingsOf(feature)
         IN  Flatten([k \in 1..Len(rings) |-> RingSamples(rings[k], feature.properties)])

\* C10: every ring of length N of a Polygon or MultiPolygon feature gives the vertices at
\* 0, s, 2s, ... < N with s = max(1, floor(N/10)), in index order: ceil(N/s) of them, at
\* most N, all of them when N <= 10; the points come in feature, ring, sample order.
C10_RingSampling ==
  /\ points = Flatten([k \in 1..featureIdx |-> FeatureSamples(FeaturesToProcess[k])])
  /\ \A k \in 1..Len(FeaturesToProcess) :
       LET f == FeaturesToProcess[k]
           rings == RingsOf(f)
       IN  \A j \in 1..Len(rings) :
             LET N == Len(rings[j])
                 s == IF N \div 10 >= 1 THEN N \div 10 ELSE 1
                 got == SampleRing(rings[j], 0, f.properties)
             IN  /\ got = RingSamples(rings[j], f.properties)
                 /\ Len(got) = CeilDiv(N, s)
                 /\ Len(got) <= N
                 /\ N <= 10 => Len(got) = N
                 /\ \A i \in 1..Len(got) : got[i].latlng = <<rings[j][(i - 1) * s + 1][2], rings[j][(i - 1) * s + 1][1]>>

\* C10 witness: a MultiPolygon with rings of 3, 25 and 11 vertices has been reduced to
\* 3 + 13 + 11 points
C10_Witness ==
  /\ ExtractDone
  /\ burnSeverityPolygons =
       Some(FeatureCollection(<<Feature("MultiPolygon", <<<<MkRing(1, 3)>>, <<MkRing(2, 25), MkRing(3, 11)>>>>,
                                        Props(Some(5), None))>>))
  /\ Len(points) = 27
  /\ points[4].latlng = <<0, 200>>
  /\ points[5].latlng = <<-2, 202>>
  /\ points[16].latlng = <<-24, 224>>

\* <<N, count>> for every ring of the features processed so far: its length and the
\* number of points the loop pushed for it
RingCounts ==
  {<<Len(RingsOf(FeaturesToProcess[k])[j]),
     Len(SampleRing(RingsOf(FeaturesToProcess[k])[j], 0, FeaturesToProcess[k].properties))>> :
     <<k, j>> \in {kj \in (1..featureIdx) \X (1..(MaxRingLen + MaxFeatures)) :
                     kj[2] <= Len(RingsOf(FeaturesToProcess[kj[1]]))}}

\* C11 as stated: a ring of N >= 1 vertices gives at most 10 display points, also for N
\* between 11 and 19.
C11_AtMostTenPerRing ==
  \A nc \in RingCounts : nc[1] >= 1 => nc[2] <= 10

\* C11 amended: a ring of N >= 1 vertices gives at most 19 display points and at most N:
\* all N of them while N < 20 (the stride is 1 below 20 vertices), and from 20 vertices on
\* at most 10 + ceil(9 / floor(N/10)).
C11_AtMostNineteenPerRing ==
  \A nc \in RingCounts :
    LET N == nc[1]
        count == nc[2]
    IN  N >= 1 =>
          /\ count >= 1
          /\ count <= 19
          /\ count <= N
          /\ N < 20 => count = N
          /\ N >= 20 => count <= 10 + CeilDiv(9, N \div 10)

\* C11 witness: a Polygon whose one ring has 19 vertices was reduced to 19 points
C11_Witness ==
  /\ ExtractDone
  /\ burnSeverityPolygons = Some(Feature("Polygon", <<MkRing(1, 19)>>, HighSeverity))
  /\ <<19, 19>> \in RingCounts
  /\ Len(points) = 19

\* the source coordinates [longitude, latitude] of a feature
CoordsOf(feature) ==
  IF feature.geometry # None /\ feature.geometry[1].type = "Point"
    THEN {feature.geometry[1].coordinates}
    ELSE LET rings == RingsOf(feature)
         IN  UNION {{rings[j][i] : i \in 1..Len(rings[j])} : j \in 1..Len(rings)}

\* C12: every point pushed for a Point, Polygon or MultiPolygon feature has latitude =
\* source[1] and longitude = source[0] of one of the feature's source coordinates
\* [longitude, latitude], and carries the severity and area of that feature (absent when
\* the feature has none); a Point feature gives exactly one point, its own coordinate
\* swapped; the points pushed before stay as they were.
C12_AxisSwap ==
  [][lastOp'.op = "processFeature" =>
       LET f == FeaturesToProcess[featureIdx']
           new == SubSeq(points', Len(points) + 1, Len(points'))
       IN  /\ SubSeq(points', 1, Len(points)) = points
           /\ \A i \in 1..Len(new) :
                /\ \E c \in CoordsOf(f) :
                     /\ new[i].latlng[1] = c[2]
                     /\ new[i].latlng[2] = c[1]
                /\ new[i].properties.severity = f.properties.severity
                /\ new[i].properties.area = f.properties.area
           /\ (f.geometry # None /\ f.geometry[1].type = "Point") =>
                new = <<[latlng |-> <<f.geometry[1].coordinates[2], f.geometry[1].coordinates[1]>>,
                         properties |-> [severity |-> f.properties.severity,
                                         area |-> f.properties.area]]>>]_vars

\* C12 witness: the Point feature at [10, 20] with severity 3 and area 2 gave the one
\* point at latitude 20, longitude 10 with that severity and area
C12_Witness ==
  /\ lastOp.op = "processFeature"
  /\ burnSeverityPolygons = Some(Feature("Point", <<10, 20>>, HighSeverity))
  /\ points = <<[latlng |-> <<20, 10>>, properties |-> [severity |-> Some(3), area |-> Some(2)]]>>

\* the severity a point is drawn with: its own, 0 when it has none
DrawnSeverity(point) ==
  IF point.properties.severity = None THEN 0 ELSE point.properties.severity[1]

\* the colour C13 states for a severity
StatedColor(sv) ==
  IF sv = 1 THEN "#69B34C"
  ELSE IF sv = 2 THEN "#FAB733"
  ELSE IF sv = 3 THEN "#FF8E15"
  ELSE IF sv = 4 THEN "#FF4E11"
  ELSE IF sv = 5 THEN "#FF0D0D"
  ELSE "#CCCCCC"

\* the label C13 states for a severity, with `veryHigh` as the text of class 4
StatedLabel(sv, veryHigh) ==
  IF sv = 1 THEN "Low"
  ELSE IF sv = 2 THEN "Moderate"
  ELSE IF sv = 3 THEN "High"
  ELSE IF sv = 4 THEN veryHigh
  ELSE IF sv = 5 THEN "Extreme"
  ELSE "Unknown"

\* the markers and the legend follow the stated mapping, class 4 being labelled veryHigh
SeverityMappingHolds(veryHigh) ==
  /\ (visibleLayers.burnSeverity /\ ExtractDone) => Len(CircleMarkers) = Len(points)
  /\ \A i \in 1..Len(CircleMarkers) :
       /\ CircleMarkers[i].fillColor = StatedColor(DrawnSeverity(points[i]))
       /\ CircleMarkers[i].color = StatedColor(DrawnSeverity(points[i]))
       /\ CircleMarkers[i].popup = StatedLabel(DrawnSeverity(points[i]), veryHigh)
  /\ Len(severityClasses) = 5
  /\ \A k \in 1..5 :
       /\ severityClasses[k] = [label |-> StatedLabel(k, veryHigh), color |-> StatedColor(k)]
       /\ severityClasses[k].color = getBurnSeverityColor(k)
       /\ severityClasses[k].label = getSeverityLabel(k)

\* C13 as stated: every marker is drawn in #69B34C, #FAB733, #FF8E15, #FF4E11, #FF0D0D
\* with labels Low, Moderate, High, VeryHigh, Extreme for severity 1..5 and in #CCCCCC
\* with label Unknown for any other or absent severity, and the legend lists those five
\* label/colour pairs in that order.
C13_MappingAsStated == SeverityMappingHolds("VeryHigh")

\* C13 amended: the same mapping with the label of class 4 written "Very High", by the
\* markers and by the legend alike.
C13_MappingTotal == SeverityMappingHolds("Very High")

\* C13 witness: a point of severity 99 is drawn in the neutral colour with label Unknown
C13_Witness ==
  /\ ExtractDone
  /\ burnSeverityPolygons = Some(Feature("Point", <<10, 20>>, Props(Some(99), None)))
  /\ Len(CircleMarkers) = 1
  /\ CircleMarkers[1].fillColor = "#CCCCCC"
  /\ CircleMarkers[1].popup = "Unknown"

\* the auto-start effect has just called runAnalysis
AutoRunStarted == lastOp.op = "autoRun" /\ "params" \in DOMAIN lastOp

\* C14: a map click while isLoading is false is accepted, whatever the clicked coordinates
\* (also those already selected): it selects the clicked location and schedules the
\* auto-start effect, and the very next step, with no user action in between, is that
\* effect calling runAnalysis with the latitude and longitude just selected (one new
\* request in flight, isLoading true); the effect always gets to run. A click while
\* isLoading is true changes neither the store nor the requests.
C14_AutoStart ==
  /\ [][lastOp'.op = "mapClick" =>
          IF isLoading
            THEN /\ ~lastOp'.accepted
                 /\ ~effectPending'
                 /\ UNCHANGED <<storeVars, inflight, fetchCount>>
            ELSE /\ lastOp'.accepted
                 /\ selectedLocation' = Some(lastOp'.loc)
                 /\ effectPending'
                 /\ UNCHANGED <<inflight, fetchCount>>]_vars
  /\ [][effectPending =>
          /\ lastOp.op = "mapClick" /\ lastOp.accepted
          /\ lastOp'.op = "autoRun" /\ "params" \in DOMAIN lastOp'
          /\ lastOp'.params.latitude = lastOp.loc.latitude
          /\ lastOp'.params.longitude = lastOp.loc.longitude
          /\ selectedLocation' = Some(lastOp.loc)
          /\ fetchCount' = fetchCount + 1
          /\ inflight' = inflight \cup {Request(fetchCount', lastOp'.params)}
          /\ isLoading'
          /\ ~effectPending']_vars
  /\ effectPending ~> (AutoRunStarted /\ isLoading)

\* C14 witness: after a first analysis came back, a second click was accepted and the
\* effect started the second request for the location of that click
C14_Witness ==
  /\ AutoRunStarted
  /\ lastOp.id = 2
  /\ selectedLocation = Some(ParamsLocation(lastOp.params))
  /\ inflight = {Request(2, lastOp.params)}
  /\ isLoading
  /\ analysisResults = None

\* C15: driven only through the page (map clicks, the auto-start effect, the Run Analysis,
\* mock and layer buttons), at most one remote request is in flight at any time, and
\* isLoading is true exactly when a request is in flight.
C15_SingleFlight ==
  /\ Cardinality(inflight) <= 1
  /\ isLoading <=> inflight # {}

\* C15 witness: the second request of the session is the only one in flight, started
\* by the Run Analysis button after the first one had settled
C15_Witness ==
  /\ lastOp.op = "clickRunAnalysis"
  /\ "id" \in DOMAIN lastOp
  /\ lastOp.id = 2
  /\ InflightIds = {2}
  /\ isLoading

\* C16: driven only through the page, whenever a result is present it was written by a
\* request made for the location now selected, or by the mock substitution made while
\* that location was selected ("latest selection wins").
C16_LatestSelectionWins ==
  analysisResults # None =>
    /\ selectedLocation # None
    /\ resultReq # None
    /\ resultReq[1].loc = selectedLocation[1]

\* C16 witness: after a result for one location, another location was clicked and its
\* own request has returned the result now shown
C16_Witness ==
  /\ ClientReturned
  /\ lastOp.req.id = 2
  /\ analysisResults = Some(LastRes.value)
  /\ resultReq = Some(WrittenBy(2, SanFrancisco))
  /\ selectedLocation = Some(SanFrancisco)
  /\ inflight = {}

\* C17: after any sequence of selectLocation, runAnalysis (completing with success or
\* failure, in any order), clear, toggleLayer and the mock substitution, the derived
\* geometry is none when the result is none and is the result's burnSeverityPolygons
\* otherwise (none when the result carries no geometry); and toggleLayer flips the named
\* visibility flag and changes nothing else of the session.
C17_GeometryFollowsResult ==
  /\ [](burnSeverityPolygons =
          IF analysisResults = None THEN None ELSE analysisResults[1].burnSeverityPolygons)
  /\ [][lastOp'.op = "toggleLayer" =>
          /\ visibleLayers'.burnSeverity = ~visibleLayers.burnSeverity
          /\ DOMAIN visibleLayers' = DOMAIN visibleLayers
          /\ UNCHANGED <<selectedLocation, analysisResults, burnSeverityPolygons, isLoading, error>>
          /\ UNCHANGED <<inflight, fetchCount>>]_vars

\* C17 witness: the layer was hidden while a result with geometry is shown and a request
\* is in flight; result, geometry and loading flag are as before
C17_Witness ==
  /\ lastOp.op = "toggleLayer"
  /\ ~visibleLayers.burnSeverity
  /\ analysisResults # None
  /\ burnSeverityPolygons # None
  /\ burnSeverityPolygons = analysisResults[1].burnSeverityPolygons
  /\ isLoading
  /\ inflight # {}

\* C18 as stated: the endpoint answers 400 {error: "Missing required parameters"} exactly
\* when one of latitude, longitude, preFireDate, postFireDate is absent from the body;
\* a body with all four present and the location in range (latitude 0 or longitude 0
\* included) passes validation; bufferKm is 5 when the body omits it; and every response
\* with a non-success status has a body {error: string}. (A date given as the empty
\* string is counted as absent.)
C18_MissingIffAbsent ==
  reply # None =>
    /\ request.kind = "object" =>
         LET body == request.json
             absent == \/ body.latitude = None \/ body.longitude = None
                       \/ body.preFireDate \in {None, Some(<< >>)}
                       \/ body.postFireDate \in {None, Some(<< >>)}
         IN  /\ (reply[1] = NextResponseJson(ErrorBody(Some(MissingParamsMsg)), 400)) <=> absent
             /\ (~absent /\ body.latitude[1] \in (-90)..90 /\ body.longitude[1] \in (-180)..180) =>
                  reply[1].status # 400
             /\ (command # None /\ body.bufferKm = None) => command[1].buffer = 5
    /\ reply[1].status \notin 200..299 =>
         /\ DOMAIN reply[1].body = {"error"}
         /\ reply[1].body.error # None

====
